---- MODULE Spec2Model ----
(***************************************************************************)
(* Model of the document slice of the go-onfido client (src/document.go):  *)
(* UploadDocument with createFormFile, GetDocument, DownloadDocument, the  *)
(* DocumentDownload write sink and the ListDocuments iterator.             *)
(*                                                                         *)
(* Client.newRequest, Client.do, Client.download and the embedded iter     *)
(* type are declared elsewhere in the package; they are modelled from the  *)
(* design document (sections 4.2 and 7) and marked so in the model map.    *)
(***************************************************************************)
EXTENDS Integers, Sequences, FiniteSets, TLC

\* ---------------------------------------------------------------- bounds
MaxLen == 2          \* longest file content / raw response body, in bytes
MaxPages == 2        \* longest chain of list pages
MaxPageLen == 2      \* most documents on one list page
MaxCalls == 7        \* most Next calls on one iterator
MaxWrites == 2       \* most Write calls on one DocumentDownload
MaxChunk == 2        \* longest chunk handed to one Write call

\* ------------------------------------------------------- program constants
SniffLen == 512      \* buffer := make([]byte, 512)

\* ------------------------------------------------------------ value sets
\* Bytes: NUL (a binary byte), 'B', 'M' (the BMP signature), 't' (text).
Bytes == {0, 66, 77, 116}
BinaryBytes == {0}

SeqsUpTo(S, n) == UNION {[1..k -> S] : k \in 0..n}

Contents == SeqsUpTo(Bytes, MaxLen)
Chunks == SeqsUpTo({66, 116}, MaxChunk)

DocumentTypes == {"", "passport"}
DocumentSides == {"", "front"}
Countries == {"", "GBR"}
Filenames == {<<"a">>, <<"\"", "\\">>}

None == "nil"

ZeroDocument == [ID |-> "", Type |-> "", Side |-> ""]
Documents == {ZeroDocument,
              [ID |-> "d1", Type |-> "passport", Side |-> "front"],
              [ID |-> "d2", Type |-> "passport", Side |-> ""]}

Min(a, b) == IF a < b THEN a ELSE b

VARIABLES
  op,       \* the operation the caller is running ("idle" before any)
  pc,       \* position inside the running operation
  file,     \* dr.File: [content, pos], a seekable stream (start: where it stood at the call)
  dr,       \* the DocumentRequest scalars and the filename argument
  body,     \* the multipart body written so far: [parts, closed]
  sent,     \* the requests handed to the network, in order
  resp,     \* the service's answer to the request in flight
  ret,      \* what the operation returned to its caller
  it,       \* the iterator: [values, idx, nextURL, err]
  pages,    \* the service's chain of list pages
  hist,     \* observations of the iterator's caller
  dd,       \* a DocumentDownload used as a write sink: [Size, Content]
  written   \* observations of the sink's caller

vars == <<op, pc, file, dr, body, sent, resp, ret, it, pages, hist, dd, written>>

\* ------------------------------------------------------------- escaping
\* quoteEscaper: backslash -> two backslashes, double quote -> backslash quote.
RECURSIVE escapeQuotes(_)
escapeQuotes(s) ==
  IF s = <<>> THEN <<>>
  ELSE LET c == Head(s) IN
       (IF c = "\\" THEN <<"\\", "\\">>
        ELSE IF c = "\"" THEN <<"\\", "\"">>
        ELSE <<c>>) \o escapeQuotes(Tail(s))

\* ------------------------------------------------------ content sniffing
\* http.DetectContentType restricted to the rules the byte alphabet can
\* trigger: the exact signature "BM", then the text rule (no binary byte),
\* then the fallback.  None of the bytes is whitespace, so the leading
\* whitespace skip of the text rule changes nothing here.
HasPrefix(data, sig) ==
  /\ Len(data) >= Len(sig)
  /\ \A i \in 1..Len(sig) : data[i] = sig[i]

DetectContentType(data) ==
  LET d == SubSeq(data, 1, Min(Len(data), SniffLen)) IN
  IF HasPrefix(d, <<66, 77>>) THEN "image/bmp"
  ELSE IF \A i \in 1..Len(d) : d[i] \notin BinaryBytes
       THEN "text/plain; charset=utf-8"
       ELSE "application/octet-stream"

\* make([]byte, 512): a zeroed buffer.
ZeroBuffer == [i \in 1..SniffLen |-> 0]

\* file.Read(buffer) having returned n bytes from position pos.
ReadInto(buffer, content, pos, n) ==
  [i \in 1..Len(buffer) |-> IF i <= n THEN content[pos + i] ELSE buffer[i]]

\* The buffer createFormFile hands to DetectContentType after a read of n
\* bytes: all 512 bytes of it, whatever n was.
SniffInput(content, pos, n) == ReadInto(ZeroBuffer, content, pos, n)

\* file.Seek(0, 0) having succeeded.
SeekCurrent(f) == f

SeekStart(f) == [f EXCEPT !.pos = 0]

\* The header createFormFile builds for the file part.
FileHeader(fieldname, filename, sniffed) ==
  [name |-> escapeQuotes(fieldname),
   filename |-> escapeQuotes(filename),
   contentType |-> DetectContentType(sniffed)]

\* ---------------------------------------------------------- multipart
\* writer.CreatePart(h): a new part with header h and no data yet.
CreatePart(b, h) ==
  [b EXCEPT !.parts = Append(@, [kind |-> "file", name |-> h.name,
                                 filename |-> h.filename,
                                 contentType |-> h.contentType,
                                 data |-> <<>>])]

\* io.Copy(part, dr.File) having copied data into the last part created.
CopyIntoPart(b, data) ==
  [b EXCEPT !.parts[Len(b.parts)].data = @ \o data]

\* writer.WriteField(fieldname, value): a form field, written whatever value is.
WriteField(b, fieldname, value) ==
  [b EXCEPT !.parts = Append(@, [kind |-> "field", name |-> <<fieldname>>,
                                 filename |-> <<>>, contentType |-> "",
                                 data |-> <<value>>])]

EmptyBody == [parts |-> <<>>, closed |-> FALSE]

\* ---------------------------------------------------------- initial state
NoFile == [content |-> <<>>, pos |-> 0, start |-> 0]
NoRequest == [Type |-> "", Side |-> "", IssuingCountry |-> "", filename |-> <<>>]
NoResponse == [status |-> 0, wellFormed |-> FALSE, doc |-> ZeroDocument, raw |-> <<>>]
NoReturn == [returned |-> FALSE, panicked |-> FALSE, hasValue |-> FALSE,
             doc |-> ZeroDocument, blob |-> <<>>, size |-> 0, err |-> None,
             reqFailed |-> FALSE, reqTouched |-> FALSE]
NoIter == [values |-> <<>>, idx |-> 0, nextURL |-> 0, err |-> None]
NoHist == [calls |-> 0, delivered |-> <<>>, lastRet |-> TRUE,
           badFetch |-> FALSE, sinceBad |-> 0]
NoSink == [Size |-> 0, Content |-> <<>>]
NoWritten == [all |-> <<>>, count |-> 0, lastN |-> 0, lastLen |-> 0, lastErr |-> None]

Init ==
  /\ op = "idle"
  /\ pc = "idle"
  /\ file = NoFile
  /\ dr = NoRequest
  /\ body = EmptyBody
  /\ sent = <<>>
  /\ resp = NoResponse
  /\ ret = NoReturn
  /\ it = NoIter
  /\ pages = <<>>
  /\ hist = NoHist
  /\ dd = NoSink
  /\ written = NoWritten

\* ------------------------------------------------------- UploadDocument
\* The caller invokes UploadDocument with a stream at any position.
UploadDocument ==
  /\ op = "idle"
  /\ \E c \in Contents, p \in 0..MaxLen, t \in DocumentTypes,
        s \in DocumentSides, ic \in Countries, fn \in Filenames :
       /\ p <= Len(c)
       /\ file' = [content |-> c, pos |-> p, start |-> p]
       /\ dr' = [Type |-> t, Side |-> s, IssuingCountry |-> ic, filename |-> fn]
  /\ op' = "upload"
  /\ pc' = "createFormFile"
  /\ body' = EmptyBody
  /\ UNCHANGED <<sent, resp, ret, it, pages, hist, dd, written>>

Return(r) ==
  /\ ret' = r
  /\ pc' = "done"

\* createFormFile: Read into the 512-byte buffer, Seek(0, 0), build the
\* header, CreatePart.  Each of the three calls may fail.
createFormFile ==
  /\ op = "upload" /\ pc = "createFormFile"
  /\ LET remaining == Len(file.content) - file.pos IN
     \/ \* file.Read fails (io.EOF at the end of the stream, or an I/O error)
        /\ Return([NoReturn EXCEPT !.returned = TRUE, !.err = "ReadError"])
        /\ UNCHANGED <<file, body>>
     \/ \E n \in 1..Min(SniffLen, remaining) :
          LET sniffed == SniffInput(file.content, file.pos, n) IN
          \/ \* file.Seek fails
             /\ file' = [file EXCEPT !.pos = file.pos + n]
             /\ Return([NoReturn EXCEPT !.returned = TRUE, !.err = "SeekError"])
             /\ UNCHANGED body
          \/ \* writer.CreatePart fails
             /\ file' = SeekStart([file EXCEPT !.pos = file.pos + n])
             /\ Return([NoReturn EXCEPT !.returned = TRUE, !.err = "WriterError"])
             /\ UNCHANGED body
          \/ /\ file' = SeekStart([file EXCEPT !.pos = file.pos + n])
             /\ body' = CreatePart(body, FileHeader(<<"f", "i", "l", "e">>,
                                                    dr.filename, sniffed))
             /\ pc' = "copy"
             /\ UNCHANGED ret
  /\ UNCHANGED <<op, dr, sent, resp, it, pages, hist, dd, written>>

\* io.Copy(part, dr.File): everything from the stream's position to its end
\* goes into the file part, or the copy stops part-way with an error.
copyFile ==
  /\ op = "upload" /\ pc = "copy"
  /\ LET remaining == Len(file.content) - file.pos IN
     \/ /\ body' = CopyIntoPart(body, SubSeq(file.content, file.pos + 1,
                                             Len(file.content)))
        /\ file' = [file EXCEPT !.pos = Len(file.content)]
        /\ pc' = "writeType"
        /\ UNCHANGED ret
     \/ \E k \in 0..remaining :
          /\ body' = CopyIntoPart(body, SubSeq(file.content, file.pos + 1,
                                               file.pos + k))
          /\ file' = [file EXCEPT !.pos = file.pos + k]
          /\ Return([NoReturn EXCEPT !.returned = TRUE, !.err = "CopyError"])
  /\ UNCHANGED <<op, dr, sent, resp, it, pages, hist, dd, written>>

\* One writer.WriteField statement of UploadDocument and its error return.
WriteFieldStep(at, fieldname, value, next) ==
  /\ op = "upload" /\ pc = at
  /\ \/ /\ body' = WriteField(body, fieldname, value)
        /\ pc' = next
        /\ UNCHANGED ret
     \/ /\ Return([NoReturn EXCEPT !.returned = TRUE, !.err = "WriterError"])
        /\ UNCHANGED body
  /\ UNCHANGED <<op, file, dr, sent, resp, it, pages, hist, dd, written>>

writeType == WriteFieldStep("writeType", "type", dr.Type, "writeSide")

writeSide == WriteFieldStep("writeSide", "side", dr.Side, "writeCountry")

writeCountry ==
  WriteFieldStep("writeCountry", "issuing_country", dr.IssuingCountry, "close")

\* writer.Close(): the closing boundary.
CloseNothing(b) == b

CloseWriter(b) == [b EXCEPT !.closed = TRUE]

writerClose ==
  /\ op = "upload" /\ pc = "close"
  /\ \/ /\ body' = CloseWriter(body)
        /\ pc' = "newRequest"
        /\ UNCHANGED ret
     \/ /\ Return([NoReturn EXCEPT !.returned = TRUE, !.err = "WriterError"])
        /\ UNCHANGED body
  /\ UNCHANGED <<op, file, dr, sent, resp, it, pages, hist, dd, written>>

\* ------------------------------------------------------------ transport
\* What the service may answer: status 0 stands for a transport failure
\* (no answer at all, or the context cancelled).
Statuses == {0, 200, 403}

JSONResponses ==
  [status : Statuses, wellFormed : BOOLEAN, doc : Documents, raw : {<<>>}]

RawResponses ==
  [status : Statuses, wellFormed : {FALSE}, doc : {ZeroDocument}, raw : Contents]

Is2xx(status) == status >= 200 /\ status <= 299

\* c.do(ctx, req, &target): the target is decoded into only on a 2xx answer
\* with a well-formed JSON body.
do(r, target) ==
  IF r.status = 0 THEN [target |-> target, err |-> "TransportError"]
  ELSE IF ~Is2xx(r.status) THEN [target |-> target, err |-> "APIError"]
  ELSE IF ~r.wellFormed THEN [target |-> target, err |-> "DecodeError"]
  ELSE [target |-> r.doc, err |-> None]

\* c.download(ctx, req, ...): the raw bytes of a 2xx answer.
download(r) ==
  IF r.status = 0 THEN [blob |-> <<>>, err |-> "TransportError"]
  ELSE IF ~Is2xx(r.status) THEN [blob |-> <<>>, err |-> "APIError"]
  ELSE [blob |-> r.raw, err |-> None]

Request(method, path, page, contentType, b) ==
  [method |-> method, path |-> path, page |-> page,
   contentType |-> contentType, body |-> b]

\* c.newRequest(...) followed by req.Header.Set(...) and only then the error
\* check.  When newRequest fails, the Set runs on whatever request came
\* back: on a nil *http.Request it is a nil dereference (panic), on a
\* non-nil one the failed request is written to before the error returns.
uploadNewRequest ==
  /\ op = "upload" /\ pc = "newRequest"
  /\ \/ /\ pc' = "do"
        /\ UNCHANGED ret
     \/ /\ ret' = [NoReturn EXCEPT !.panicked = TRUE, !.reqFailed = TRUE,
                                   !.reqTouched = TRUE]
        /\ pc' = "done"
     \/ Return([NoReturn EXCEPT !.returned = TRUE, !.err = "RequestError",
                                !.reqFailed = TRUE, !.reqTouched = TRUE])
  /\ UNCHANGED <<op, file, dr, body, sent, resp, it, pages, hist, dd, written>>

\* return &resp, err
UploadDocumentResult(r) ==
  [NoReturn EXCEPT !.returned = TRUE, !.hasValue = TRUE, !.doc = r.target,
                   !.err = r.err]

\* var resp Document; _, err = c.do(ctx, req, &resp); return &resp, err
uploadDo ==
  /\ op = "upload" /\ pc = "do"
  /\ \E r \in JSONResponses :
       /\ resp' = r
       /\ sent' = Append(sent, Request("POST", "documents", 0,
                                    "multipart/form-data", body))
       /\ Return(UploadDocumentResult(do(r, ZeroDocument)))
  /\ UNCHANGED <<op, file, dr, body, it, pages, hist, dd, written>>

\* ---------------------------------------------------------- GetDocument
\* return &resp, err
GetDocumentResultNoError(r) ==
  [NoReturn EXCEPT !.returned = TRUE, !.hasValue = TRUE, !.doc = r.target]

GetDocumentResult(r) ==
  [NoReturn EXCEPT !.returned = TRUE, !.hasValue = TRUE, !.doc = r.target,
                   !.err = r.err]

GetDocument ==
  /\ op = "idle"
  /\ op' = "get"
  /\ \/ \* newRequest fails: return nil, err
        /\ Return([NoReturn EXCEPT !.returned = TRUE, !.err = "RequestError",
                                   !.reqFailed = TRUE])
        /\ UNCHANGED <<sent, resp>>
     \/ \E r \in JSONResponses :
          /\ resp' = r
          /\ sent' = Append(sent, Request("GET", "document", 0, "", EmptyBody))
          /\ Return(GetDocumentResult(do(r, ZeroDocument)))
  /\ UNCHANGED <<file, dr, body, it, pages, hist, dd, written>>

\* ----------------------------------------------------- DownloadDocument
\* return &DocumentDownload{Content: blob, Size: len(blob)}, err
DownloadDocumentResultNoSize(d) ==
  [NoReturn EXCEPT !.returned = TRUE, !.hasValue = TRUE, !.blob = d.blob,
                   !.err = d.err]

DownloadDocumentResult(d) ==
  [NoReturn EXCEPT !.returned = TRUE, !.hasValue = TRUE, !.blob = d.blob,
                   !.size = Len(d.blob), !.err = d.err]

DownloadDocument ==
  /\ op = "idle"
  /\ op' = "download"
  /\ \/ \* newRequest fails: return nil, err
        /\ Return([NoReturn EXCEPT !.returned = TRUE, !.err = "RequestError",
                                   !.reqFailed = TRUE])
        /\ UNCHANGED <<sent, resp>>
     \/ \E r \in RawResponses :
          /\ resp' = r
          /\ sent' = Append(sent, Request("GET", "download", 0, "", EmptyBody))
          /\ Return(DownloadDocumentResult(download(r)))
  /\ UNCHANGED <<file, dr, body, it, pages, hist, dd, written>>

\* ------------------------------------------------ DocumentDownload.Write
\* d.Content = data; d.Size = len(data); return len(data), nil
Write ==
  /\ op \in {"idle", "sink"}
  /\ written.count < MaxWrites
  /\ op' = "sink"
  /\ pc' = "sink"
  /\ \E data \in Chunks :
       /\ dd' = [Size |-> Len(data), Content |-> data]
       /\ written' = [all |-> written.all \o data, count |-> written.count + 1,
                      lastN |-> Len(data), lastLen |-> Len(data),
                      lastErr |-> None]
  /\ UNCHANGED <<file, dr, body, sent, resp, ret, it, pages, hist>>

\* -------------------------------------------------------- ListDocuments
ListedDocuments == Documents \ {ZeroDocument}

PageContents == SeqsUpTo(ListedDocuments, MaxPageLen)

Chains == UNION {[1..k -> PageContents] : k \in 1..MaxPages}

\* The URL of page k of the chain; 0 is the empty URL.
FirstURL == 1

NextLink(chain, k) == IF k < Len(chain) THEN k + 1 ELSE 0

\* handler: json.Unmarshal into Documents, then one value per document, in
\* the order of the "documents" array.
handlerDropsFirst(b) ==
  IF ~b.wellFormed THEN [values |-> <<>>, err |-> "DecodeError"]
  ELSE [values |-> IF b.documents = <<>> THEN <<>> ELSE Tail(b.documents),
        err |-> None]

handlerSwallowsError(b) ==
  IF ~b.wellFormed THEN [values |-> <<>>, err |-> None]
  ELSE [values |-> b.documents, err |-> None]

handler(b) ==
  IF ~b.wellFormed THEN [values |-> <<>>, err |-> "DecodeError"]
  ELSE [values |-> [i \in 1..Len(b.documents) |-> b.documents[i]],
        err |-> None]

\* ListDocuments: an iterator on the first page's URL, nothing fetched yet.
ListDocuments ==
  /\ op = "idle"
  /\ op' = "list"
  /\ pc' = "iterating"
  /\ \E chain \in Chains : pages' = chain
  /\ it' = [NoIter EXCEPT !.nextURL = FirstURL]
  /\ hist' = NoHist
  /\ UNCHANGED <<file, dr, body, sent, resp, ret, dd, written>>

\* iter.Current / DocumentIter.Document: the item at the in-page index.
Current(i) == i.values[i.idx]

HasUnread(i) == i.idx < Len(i.values)

\* What the caller of Next sees: the result, the item Current exposes after
\* a true result, and whether the service answered a fetch of this or an
\* earlier call badly (no answer, a non-2xx status or a malformed body).
Observe(h, i, result, bad) ==
  [calls |-> h.calls + 1,
   delivered |-> IF result THEN Append(h.delivered, Current(i)) ELSE h.delivered,
   lastRet |-> result,
   badFetch |-> h.badFetch \/ bad,
   sinceBad |-> h.sinceBad + (IF h.badFetch THEN 1 ELSE 0)]

\* iter.Next(ctx)
IterNext ==
  /\ op = "list"
  /\ hist.calls < MaxCalls
  /\ \/ \* Failed is terminal
        /\ it.err # None
        /\ hist' = Observe(hist, it, FALSE, FALSE)
        /\ UNCHANGED <<it, sent, resp>>
     \/ \* the current page still has unread items
        /\ it.err = None /\ HasUnread(it)
        /\ it' = [it EXCEPT !.idx = @ + 1]
        /\ hist' = Observe(hist, it', TRUE, FALSE)
        /\ UNCHANGED <<sent, resp>>
     \/ \* fetch the next page
        /\ it.err = None /\ ~HasUnread(it) /\ it.nextURL # 0
        /\ sent' = Append(sent, Request("GET", "documents", it.nextURL, "", EmptyBody))
        /\ \E status \in Statuses, wf \in BOOLEAN :
             LET r == [NoResponse EXCEPT !.status = status, !.wellFormed = wf]
                 fetched == do(r, ZeroDocument)
                 h == handler([wellFormed |-> wf,
                               documents |-> pages[it.nextURL]])
             IN /\ resp' = r
                /\ IF status = 0 \/ ~Is2xx(status)
                   THEN /\ it' = [it EXCEPT !.err = fetched.err]
                        /\ hist' = Observe(hist, it', FALSE, TRUE)
                   ELSE IF h.err # None
                   THEN /\ it' = [it EXCEPT !.err = h.err]
                        /\ hist' = Observe(hist, it', FALSE, ~wf)
                   ELSE /\ it' = [it EXCEPT !.values = h.values, !.idx = 1,
                                            !.nextURL = NextLink(pages, it.nextURL)]
                        /\ hist' = Observe(hist, it', h.values # <<>>, ~wf)
     \/ \* normal exhaustion
        /\ it.err = None /\ ~HasUnread(it) /\ it.nextURL = 0
        /\ hist' = Observe(hist, it, FALSE, FALSE)
        /\ UNCHANGED <<it, sent, resp>>
  /\ UNCHANGED <<op, pc, file, dr, body, ret, pages, dd, written>>

Next ==
  \/ UploadDocument
  \/ createFormFile
  \/ copyFile
  \/ writeType
  \/ writeSide
  \/ writeCountry
  \/ writerClose
  \/ uploadNewRequest
  \/ uploadDo
  \/ GetDocument
  \/ DownloadDocument
  \/ Write
  \/ ListDocuments
  \/ IterNext

Spec == Init /\ [][Next]_vars

\* ================================================================ claims
RECURSIVE Flatten(_)
Flatten(chain) ==
  IF chain = <<>> THEN <<>> ELSE Head(chain) \o Flatten(Tail(chain))

IsPrefix(a, b) == Len(a) <= Len(b) /\ a = SubSeq(b, 1, Len(a))

Exhausted(i) == i.nextURL = 0 /\ ~HasUnread(i)

\* C1: over any chain of pages, the items Current exposes after the true
\* results of Next are the chain's items in page order then in-page order,
\* each exactly once: always a prefix of them, all of them once the last
\* page is used up; a Next call made after the last item was exposed, and
\* not hit by a failure, returns false with no error recorded.
C1_IterDeliversEachItemOnce ==
  [][op' = "list" =>
       /\ IsPrefix(hist'.delivered, Flatten(pages'))
       /\ (Exhausted(it') /\ it'.err = None
             => hist'.delivered = Flatten(pages'))
       /\ (op = "list" /\ hist.delivered = Flatten(pages) /\ it'.err = None
             /\ hist'.calls = hist.calls + 1
             => ~hist'.lastRet /\ hist'.delivered = hist.delivered)]_vars

C1_Witness ==
  /\ op = "list"
  /\ Len(pages) = 2 /\ Len(pages[1]) = 2 /\ Len(pages[2]) >= 1
  /\ pages[1][1] # pages[1][2]
  /\ hist.delivered = Flatten(pages)
  /\ hist.calls = Len(hist.delivered) + 1
  /\ ~hist.lastRet
  /\ it.err = None

\* C2: once the service has answered a page fetch badly (no answer, a
\* non-2xx status, or a body that does not decode), the Next call that made
\* the fetch and every later one return false, Err is non-nil and stays
\* what it was, and no further request is issued.
C2_IterFailureIsTerminal ==
  [][op' = "list" =>
       /\ (hist'.badFetch => it'.err # None /\ ~hist'.lastRet)
       /\ (op = "list" /\ hist.badFetch
             => sent' = sent /\ it'.err = it.err)]_vars

C2_Witness ==
  /\ op = "list"
  /\ hist.badFetch
  /\ hist.sinceBad >= 2
  /\ Len(hist.delivered) >= 1
  /\ it.err = "DecodeError"
  /\ ~hist.lastRet

\* C3: when the service answers UploadDocument, GetDocument or
\* DownloadDocument with a status outside 2xx, the call returns a non-nil
\* error and nothing of the response body is in the returned value.
C3_NonOKNeverPopulates ==
  (op \in {"upload", "get", "download"} /\ ret.returned /\ sent # <<>>
     /\ resp.status # 0 /\ ~Is2xx(resp.status))
  => /\ ret.err # None
     /\ ret.doc = ZeroDocument
     /\ ret.blob = <<>>
     /\ ret.size = 0

C3_Witness ==
  /\ op = "get" /\ ret.returned
  /\ resp.status = 403 /\ resp.wellFormed /\ resp.doc # ZeroDocument
  /\ ret.err = "APIError"

\* C4: for a 2xx answer of the download endpoint, DownloadDocument returns
\* the received bytes as Content and their number as Size, with no error.
C4_DownloadReturnsBytes ==
  (op = "download" /\ ret.returned /\ sent # <<>> /\ Is2xx(resp.status))
  => /\ ret.err = None
     /\ ret.hasValue
     /\ ret.blob = resp.raw
     /\ ret.size = Len(resp.raw)

C4_Witness ==
  /\ op = "download" /\ ret.returned
  /\ resp.status = 200 /\ Len(resp.raw) = MaxLen
  /\ ret.blob = resp.raw

HasField(b, fieldname) ==
  \E i \in 1..Len(b.parts) :
    b.parts[i].kind = "field" /\ b.parts[i].name = <<fieldname>>

\* C5: in the finished multipart body each of type, side and
\* issuing_country is present exactly when its value is non-empty, and the
\* file part comes first.
C5_EmptyFieldsOmitted ==
  (op = "upload" /\ body.closed)
  => /\ body.parts[1].kind = "file"
     /\ \A i \in 2..Len(body.parts) : body.parts[i].kind = "field"
     /\ HasField(body, "type") <=> dr.Type # ""
     /\ HasField(body, "side") <=> dr.Side # ""
     /\ HasField(body, "issuing_country") <=> dr.IssuingCountry # ""

AfterCopy == {"writeType", "writeSide", "writeCountry", "close", "newRequest", "do"}

\* C6: once createFormFile has succeeded the stream stands at offset 0
\* when the copy starts, so after the copy the file part holds the whole
\* content of the stream, wherever the stream stood at the call.
C6_StreamRewoundBeforeCopy ==
  op = "upload" =>
    /\ (pc = "copy" => file.pos = 0)
    /\ (pc \in AfterCopy => body.parts[1].data = file.content)
    /\ (sent # <<>> => sent[1].body.parts[1].data = file.content)

C6_Witness ==
  /\ op = "upload" /\ pc = "writeType"
  /\ file.start > 0
  /\ Len(file.content) = MaxLen
  /\ body.parts[1].data = file.content

EncodingErrors == {"ReadError", "SeekError", "CopyError", "WriterError"}

\* C7: a read, seek, copy or writer error returns with no request issued,
\* and a request is issued only with the finished body: file part with the
\* stream's content, the non-empty scalar fields, closing boundary.
C7_NoRequestBeforeBodyComplete ==
  op = "upload" =>
    /\ (ret.err \in EncodingErrors => sent = <<>>)
    /\ (sent # <<>> =>
          /\ Len(sent) = 1
          /\ sent[1].body = body
          /\ body.closed
          /\ body.parts[1].kind = "file"
          /\ body.parts[1].data = file.content
          /\ (dr.Type # "" => HasField(body, "type"))
          /\ (dr.Side # "" => HasField(body, "side"))
          /\ (dr.IssuingCountry # "" => HasField(body, "issuing_country")))

C7_Witness ==
  /\ op = "upload" /\ ret.returned /\ ret.err = None
  /\ Len(sent) = 1 /\ sent[1].body.closed
  /\ Len(sent[1].body.parts) = 4

\* C8: the Content-Type of the file part is the type detected on the
\* first min(512, length) bytes of the stream and on nothing else.
C8_TypeDetectedOnContentAlone ==
  (op = "upload" /\ body.parts # <<>>)
  => body.parts[1].contentType =
       DetectContentType(SubSeq(file.content, 1,
                                Min(SniffLen, Len(file.content))))

\* C9: when newRequest fails, UploadDocument returns the error, does not
\* touch the failed request, sends nothing and does not crash.
C9_RequestErrorReturned ==
  (op = "upload" /\ ret.reqFailed)
  => /\ ret.returned
     /\ ~ret.panicked
     /\ ~ret.reqTouched
     /\ ret.err # None
     /\ sent = <<>>

\* C10: after any sequence of Write calls Content is the concatenation of
\* the chunks written and Size their total length; each Write reports the
\* whole chunk consumed and no error.
C10_SinkAccumulates ==
  op = "sink" =>
    /\ dd.Content = written.all
    /\ dd.Size = Len(written.all)
    /\ written.lastN = written.lastLen
    /\ written.lastErr = None

====
